---- MODULE Spec2Model ----
(***************************************************************************)
(* Model of src/main.py: the three closed-form formulas of the TMST phase  *)
(* diagram (bose_einstein, critical_squeezing, log_negativity) and the     *)
(* run_simulation pipeline that evaluates them on a grid and saves a plot. *)
(*                                                                         *)
(* Numbers.  The program computes in IEEE double precision through numpy.  *)
(* The model keeps what matters of that arithmetic: a finite precision     *)
(* with round-to-nearest-even after every operation, a largest finite      *)
(* value, the infinities, not-a-number, and correctly rounded exp, log and *)
(* log2.  A number is an integer count of 1/Scale units (Scale = 100, so   *)
(* 0.01 is 1 and 5.0 is 500); PosInf, NegInf and NaN are three integers    *)
(* outside the finite range -MaxFloat..MaxFloat.                           *)
(***************************************************************************)
EXTENDS Integers, Sequences, FiniteSets

VARIABLES
  \* ---- run_simulation ----
  pc,              \* the statement run_simulation is about to execute
  events,          \* what the run has done so far, in order
  GRID_RESOLUTION, \* configuration: points per axis
  SHOW_PLOT,       \* configuration: whether plt.show() is called
  T_vals, r_vals,  \* the two axes (sequences)
  T_grid, r_grid,  \* the meshes (sequences of rows)
  n_bar_grid,      \* occupation field
  E_N,             \* entanglement field
  n_bar_line,      \* occupation along the temperature axis
  r_crit_line,     \* critical-threshold curve
  savefig_calls,   \* how many times plt.savefig was called
  error,           \* the exception that left run_simulation, or "none"
  \* ---- direct calls of the three formulas ----
  temp_in,         \* temperatures still to be passed to bose_einstein
  temp_kind,       \* "python": a Python scalar, "numpy": a numpy scalar/array element
  n_in,            \* occupations given directly to the formulas
  r_in,            \* the squeezing passed to log_negativity (at most one)
  n_out,           \* the values bose_einstein returned, in call order
  rc_out,          \* the values critical_squeezing returned, in call order
  en_out,          \* the value log_negativity returned (at most one)
  exc              \* the exception a call raised, or "none"

simVars == << pc, events, GRID_RESOLUTION, SHOW_PLOT, T_vals, r_vals, T_grid,
              r_grid, n_bar_grid, E_N, n_bar_line, r_crit_line, savefig_calls,
              error >>
fnVars == << temp_in, temp_kind, n_in, r_in, n_out, rc_out, en_out, exc >>
vars == << simVars, fnVars >>

-----------------------------------------------------------------------------
(* The number format *)

\* Units per 1.0.
Scale == 100
\* Largest finite value (200.0); beyond it an operation overflows to infinity.
MaxFloat == 20000

PosInf == MaxFloat + 1
NegInf == -PosInf
NaN == -(MaxFloat + 2)

One == Scale
Half == Scale \div 2
FromInt(k) == k * Scale

IsFinite(x) == x >= -MaxFloat /\ x <= MaxFloat

\* An exact result brought back into the format: overflow gives an infinity.
Overflow(v) == IF v > MaxFloat THEN PosInf ELSE IF v < -MaxFloat THEN NegInf ELSE v

\* a / b for b > 0, rounded to the nearest integer, ties to even.
RoundDiv(a, b) ==
  LET q == a \div b
      rem == a % b
  IN  IF 2 * rem < b THEN q
      ELSE IF 2 * rem > b THEN q + 1
      ELSE IF q % 2 = 0 THEN q ELSE q + 1

FNeg(x) == IF x = NaN THEN NaN ELSE -x

FAdd(a, b) ==
  IF a = NaN \/ b = NaN THEN NaN
  ELSE IF (a = PosInf /\ b = NegInf) \/ (a = NegInf /\ b = PosInf) THEN NaN
  ELSE IF a = PosInf \/ b = PosInf THEN PosInf
  ELSE IF a = NegInf \/ b = NegInf THEN NegInf
  ELSE Overflow(a + b)

FSub(a, b) == FAdd(a, FNeg(b))

FMul(a, b) ==
  IF a = NaN \/ b = NaN THEN NaN
  ELSE IF ~IsFinite(a) \/ ~IsFinite(b)
       THEN IF a = 0 \/ b = 0 THEN NaN
            ELSE IF (a > 0) = (b > 0) THEN PosInf ELSE NegInf
  ELSE Overflow(RoundDiv(a * b, Scale))

FDiv(a, b) ==
  IF a = NaN \/ b = NaN THEN NaN
  ELSE IF b = 0
       THEN IF a = 0 THEN NaN ELSE IF a > 0 THEN PosInf ELSE NegInf
  ELSE IF ~IsFinite(b)
       THEN IF ~IsFinite(a) THEN NaN ELSE 0
  ELSE IF ~IsFinite(a)
       THEN IF (a > 0) = (b > 0) THEN PosInf ELSE NegInf
  ELSE IF b > 0 THEN Overflow(RoundDiv(a * Scale, b))
  ELSE Overflow(RoundDiv(-(a * Scale), -b))

\* np.maximum propagates not-a-number.
FMax(a, b) == IF a = NaN \/ b = NaN THEN NaN ELSE IF a >= b THEN a ELSE b

-----------------------------------------------------------------------------
(* exp, log and log2, correctly rounded in the format.                      *)
(* ExpTab[x - ExpLo + 1] is exp(x/Scale) in units, for ExpLo <= x <= ExpHi; *)
(* below ExpLo the result rounds to 0, above ExpHi it exceeds MaxFloat.     *)
(* LnUp[x - LnLo + 1] is the largest y whose log rounds to at most x, and   *)
(* Log2Up the same for log2.                                                *)

ExpLo == -529
ExpHi == 529
LnLo == -461
Log2Lo == -664

ExpTab ==
  << 1, 1, 1, 1, 1, 1, 1, 1, 1, 1, 1, 1, 1, 1, 1, 1, 1, 1, 1, 1, 1, 1, 1, 1, 1, 1, 1, 1, 1, 1, 1,
     1, 1, 1, 1, 1, 1, 1, 1, 1, 1, 1, 1, 1, 1, 1, 1, 1, 1, 1, 1, 1, 1, 1, 1, 1, 1, 1, 1, 1, 1, 1,
     1, 1, 1, 1, 1, 1, 1, 1, 1, 1, 1, 1, 1, 1, 1, 1, 1, 1, 1, 1, 1, 1, 1, 1, 1, 1, 1, 1, 1, 1, 1,
     1, 1, 1, 1, 1, 1, 1, 1, 1, 1, 1, 1, 1, 1, 1, 1, 1, 2, 2, 2, 2, 2, 2, 2, 2, 2, 2, 2, 2, 2, 2,
     2, 2, 2, 2, 2, 2, 2, 2, 2, 2, 2, 2, 2, 2, 2, 2, 2, 2, 2, 2, 2, 2, 2, 2, 2, 2, 2, 2, 2, 2, 2,
     2, 2, 2, 2, 2, 2, 3, 3, 3, 3, 3, 3, 3, 3, 3, 3, 3, 3, 3, 3, 3, 3, 3, 3, 3, 3, 3, 3, 3, 3, 3,
     3, 3, 3, 3, 3, 3, 3, 3, 4, 4, 4, 4, 4, 4, 4, 4, 4, 4, 4, 4, 4, 4, 4, 4, 4, 4, 4, 4, 4, 4, 4,
     4, 4, 5, 5, 5, 5, 5, 5, 5, 5, 5, 5, 5, 5, 5, 5, 5, 5, 5, 5, 5, 5, 6, 6, 6, 6, 6, 6, 6, 6, 6,
     6, 6, 6, 6, 6, 6, 6, 6, 7, 7, 7, 7, 7, 7, 7, 7, 7, 7, 7, 7, 7, 7, 8, 8, 8, 8, 8, 8, 8, 8, 8,
     8, 8, 8, 8, 9, 9, 9, 9, 9, 9, 9, 9, 9, 9, 9, 10, 10, 10, 10, 10, 10, 10, 10, 10, 10, 11, 11,
     11, 11, 11, 11, 11, 11, 11, 12, 12, 12, 12, 12, 12, 12, 12, 12, 13, 13, 13, 13, 13, 13, 13,
     14, 14, 14, 14, 14, 14, 14, 15, 15, 15, 15, 15, 15, 15, 16, 16, 16, 16, 16, 16, 17, 17, 17,
     17, 17, 17, 18, 18, 18, 18, 18, 18, 19, 19, 19, 19, 19, 20, 20, 20, 20, 20, 21, 21, 21, 21,
     21, 22, 22, 22, 22, 23, 23, 23, 23, 23, 24, 24, 24, 24, 25, 25, 25, 25, 26, 26, 26, 26, 27,
     27, 27, 28, 28, 28, 28, 29, 29, 29, 30, 30, 30, 30, 31, 31, 31, 32, 32, 32, 33, 33, 33, 34,
     34, 34, 35, 35, 35, 36, 36, 36, 37, 37, 38, 38, 38, 39, 39, 39, 40, 40, 41, 41, 41, 42, 42,
     43, 43, 44, 44, 44, 45, 45, 46, 46, 47, 47, 48, 48, 49, 49, 50, 50, 51, 51, 52, 52, 53, 53,
     54, 54, 55, 55, 56, 57, 57, 58, 58, 59, 59, 60, 61, 61, 62, 63, 63, 64, 64, 65, 66, 66, 67,
     68, 68, 69, 70, 70, 71, 72, 73, 73, 74, 75, 76, 76, 77, 78, 79, 79, 80, 81, 82, 83, 84, 84,
     85, 86, 87, 88, 89, 90, 90, 91, 92, 93, 94, 95, 96, 97, 98, 99, 100, 101, 102, 103, 104,
     105, 106, 107, 108, 109, 111, 112, 113, 114, 115, 116, 117, 119, 120, 121, 122, 123, 125,
     126, 127, 128, 130, 131, 132, 134, 135, 136, 138, 139, 140, 142, 143, 145, 146, 148, 149,
     151, 152, 154, 155, 157, 158, 160, 162, 163, 165, 167, 168, 170, 172, 173, 175, 177, 179,
     180, 182, 184, 186, 188, 190, 192, 193, 195, 197, 199, 201, 203, 205, 208, 210, 212, 214,
     216, 218, 220, 223, 225, 227, 229, 232, 234, 236, 239, 241, 244, 246, 248, 251, 253, 256,
     259, 261, 264, 266, 269, 272, 275, 277, 280, 283, 286, 289, 292, 294, 297, 300, 303, 306,
     310, 313, 316, 319, 322, 325, 329, 332, 335, 339, 342, 346, 349, 353, 356, 360, 363, 367,
     371, 374, 378, 382, 386, 390, 394, 397, 401, 406, 410, 414, 418, 422, 426, 431, 435, 439,
     444, 448, 453, 457, 462, 466, 471, 476, 481, 485, 490, 495, 500, 505, 510, 516, 521, 526,
     531, 537, 542, 547, 553, 558, 564, 570, 575, 581, 587, 593, 599, 605, 611, 617, 623, 630,
     636, 642, 649, 655, 662, 669, 675, 682, 689, 696, 703, 710, 717, 724, 732, 739, 746, 754,
     761, 769, 777, 785, 792, 800, 808, 817, 825, 833, 841, 850, 858, 867, 876, 885, 894, 903,
     912, 921, 930, 939, 949, 958, 968, 978, 987, 997, 1007, 1018, 1028, 1038, 1049, 1059, 1070,
     1080, 1091, 1102, 1113, 1125, 1136, 1147, 1159, 1170, 1182, 1194, 1206, 1218, 1230, 1243,
     1255, 1268, 1281, 1294, 1307, 1320, 1333, 1346, 1360, 1374, 1387, 1401, 1415, 1430, 1444,
     1459, 1473, 1488, 1503, 1518, 1533, 1549, 1564, 1580, 1596, 1612, 1628, 1644, 1661, 1678,
     1695, 1712, 1729, 1746, 1764, 1781, 1799, 1817, 1836, 1854, 1873, 1892, 1911, 1930, 1949,
     1969, 1989, 2009, 2029, 2049, 2070, 2091, 2112, 2133, 2154, 2176, 2198, 2220, 2242, 2265,
     2287, 2310, 2334, 2357, 2381, 2405, 2429, 2453, 2478, 2503, 2528, 2553, 2579, 2605, 2631,
     2658, 2684, 2711, 2739, 2766, 2794, 2822, 2850, 2879, 2908, 2937, 2967, 2996, 3027, 3057,
     3088, 3119, 3150, 3182, 3214, 3246, 3279, 3312, 3345, 3378, 3412, 3447, 3481, 3516, 3552,
     3587, 3623, 3660, 3697, 3734, 3771, 3809, 3847, 3886, 3925, 3965, 4004, 4045, 4085, 4126,
     4168, 4210, 4252, 4295, 4338, 4382, 4426, 4470, 4515, 4560, 4606, 4653, 4699, 4747, 4794,
     4842, 4891, 4940, 4990, 5040, 5091, 5142, 5194, 5246, 5298, 5352, 5405, 5460, 5515, 5570,
     5626, 5683, 5740, 5797, 5856, 5915, 5974, 6034, 6095, 6156, 6218, 6280, 6343, 6407, 6472,
     6537, 6602, 6669, 6736, 6803, 6872, 6941, 7011, 7081, 7152, 7224, 7297, 7370, 7444, 7519,
     7594, 7671, 7748, 7826, 7904, 7984, 8064, 8145, 8227, 8310, 8393, 8477, 8563, 8649, 8736,
     8823, 8912, 9002, 9092, 9184, 9276, 9369, 9463, 9558, 9654, 9751, 9849, 9948, 10048, 10149,
     10251, 10354, 10458, 10564, 10670, 10777, 10885, 10995, 11105, 11217, 11330, 11443, 11558,
     11675, 11792, 11910, 12030, 12151, 12273, 12397, 12521, 12647, 12774, 12902, 13032, 13163,
     13295, 13429, 13564, 13700, 13838, 13977, 14117, 14259, 14403, 14547, 14694, 14841, 14990,
     15141, 15293, 15447, 15602, 15759, 15917, 16077, 16239, 16402, 16567, 16734, 16902, 17072,
     17243, 17416, 17591, 17768, 17947, 18127, 18309, 18493, 18679, 18867, 19057, 19248, 19442,
     19637, 19834 >>

LnUp ==
  << 1, 1, 1, 1, 1, 1, 1, 1, 1, 1, 1, 1, 1, 1, 1, 1, 1, 1, 1, 1, 1, 1, 1, 1, 1, 1, 1, 1, 1, 1, 1,
     1, 1, 1, 1, 1, 1, 1, 1, 1, 1, 1, 1, 1, 1, 1, 1, 1, 1, 1, 1, 1, 1, 1, 1, 1, 1, 1, 1, 1, 1, 1,
     1, 1, 1, 1, 1, 1, 1, 1, 2, 2, 2, 2, 2, 2, 2, 2, 2, 2, 2, 2, 2, 2, 2, 2, 2, 2, 2, 2, 2, 2, 2,
     2, 2, 2, 2, 2, 2, 2, 2, 2, 2, 2, 2, 2, 2, 2, 2, 2, 3, 3, 3, 3, 3, 3, 3, 3, 3, 3, 3, 3, 3, 3,
     3, 3, 3, 3, 3, 3, 3, 3, 3, 3, 3, 3, 3, 3, 3, 4, 4, 4, 4, 4, 4, 4, 4, 4, 4, 4, 4, 4, 4, 4, 4,
     4, 4, 4, 4, 4, 4, 5, 5, 5, 5, 5, 5, 5, 5, 5, 5, 5, 5, 5, 5, 5, 5, 5, 5, 5, 6, 6, 6, 6, 6, 6,
     6, 6, 6, 6, 6, 6, 6, 6, 6, 7, 7, 7, 7, 7, 7, 7, 7, 7, 7, 7, 7, 7, 8, 8, 8, 8, 8, 8, 8, 8, 8,
     8, 8, 8, 9, 9, 9, 9, 9, 9, 9, 9, 9, 9, 9, 10, 10, 10, 10, 10, 10, 10, 10, 10, 11, 11, 11,
     11, 11, 11, 11, 11, 11, 12, 12, 12, 12, 12, 12, 12, 12, 13, 13, 13, 13, 13, 13, 13, 14, 14,
     14, 14, 14, 14, 14, 15, 15, 15, 15, 15, 15, 15, 16, 16, 16, 16, 16, 16, 17, 17, 17, 17, 17,
     17, 18, 18, 18, 18, 18, 19, 19, 19, 19, 19, 20, 20, 20, 20, 20, 21, 21, 21, 21, 21, 22, 22,
     22, 22, 23, 23, 23, 23, 24, 24, 24, 24, 25, 25, 25, 25, 26, 26, 26, 26, 27, 27, 27, 27, 28,
     28, 28, 29, 29, 29, 29, 30, 30, 30, 31, 31, 31, 32, 32, 32, 33, 33, 33, 34, 34, 34, 35, 35,
     35, 36, 36, 36, 37, 37, 38, 38, 38, 39, 39, 40, 40, 40, 41, 41, 42, 42, 42, 43, 43, 44, 44,
     45, 45, 46, 46, 47, 47, 47, 48, 48, 49, 49, 50, 50, 51, 51, 52, 52, 53, 54, 54, 55, 55, 56,
     56, 57, 57, 58, 59, 59, 60, 60, 61, 62, 62, 63, 64, 64, 65, 66, 66, 67, 68, 68, 69, 70, 70,
     71, 72, 72, 73, 74, 75, 75, 76, 77, 78, 79, 79, 80, 81, 82, 83, 83, 84, 85, 86, 87, 88, 89,
     90, 90, 91, 92, 93, 94, 95, 96, 97, 98, 99, 100, 101, 102, 103, 104, 105, 106, 107, 108,
     109, 111, 112, 113, 114, 115, 116, 117, 119, 120, 121, 122, 123, 125, 126, 127, 129, 130,
     131, 132, 134, 135, 137, 138, 139, 141, 142, 144, 145, 146, 148, 149, 151, 152, 154, 156,
     157, 159, 160, 162, 164, 165, 167, 169, 170, 172, 174, 175, 177, 179, 181, 183, 184, 186,
     188, 190, 192, 194, 196, 198, 200, 202, 204, 206, 208, 210, 212, 214, 217, 219, 221, 223,
     225, 228, 230, 232, 235, 237, 239, 242, 244, 247, 249, 252, 254, 257, 259, 262, 265, 267,
     270, 273, 275, 278, 281, 284, 287, 290, 292, 295, 298, 301, 304, 308, 311, 314, 317, 320,
     323, 327, 330, 333, 337, 340, 343, 347, 350, 354, 357, 361, 365, 368, 372, 376, 379, 383,
     387, 391, 395, 399, 403, 407, 411, 415, 419, 424, 428, 432, 437, 441, 445, 450, 454, 459,
     464, 468, 473, 478, 483, 487, 492, 497, 502, 507, 512, 518, 523, 528, 533, 539, 544, 550,
     555, 561, 566, 572, 578, 584, 590, 595, 601, 607, 614, 620, 626, 632, 639, 645, 652, 658,
     665, 671, 678, 685, 692, 699, 706, 713, 720, 727, 735, 742, 750, 757, 765, 772, 780, 788,
     796, 804, 812, 820, 828, 837, 845, 854, 862, 871, 880, 889, 898, 907, 916, 925, 934, 944,
     953, 963, 972, 982, 992, 1002, 1012, 1022, 1032, 1043, 1053, 1064, 1075, 1085, 1096, 1107,
     1118, 1130, 1141, 1153, 1164, 1176, 1188, 1200, 1212, 1224, 1236, 1249, 1261, 1274, 1287,
     1300, 1313, 1326, 1339, 1353, 1366, 1380, 1394, 1408, 1422, 1436, 1451, 1465, 1480, 1495,
     1510, 1525, 1540, 1556, 1572, 1587, 1603, 1619, 1636, 1652, 1669, 1686, 1703, 1720, 1737,
     1754, 1772, 1790, 1808, 1826, 1844, 1863, 1882, 1901, 1920, 1939, 1958, 1978, 1998, 2018,
     2038, 2059, 2080, 2101, 2122, 2143, 2164, 2186, 2208, 2230, 2253, 2275, 2298, 2321, 2345,
     2368, 2392, 2416, 2441, 2465, 2490, 2515, 2540, 2566, 2591, 2618, 2644, 2670, 2697, 2724,
     2752, 2779, 2807, 2836, 2864, 2893, 2922, 2951, 2981, 3011, 3041, 3072, 3103, 3134, 3165,
     3197, 3229, 3262, 3295, 3328, 3361, 3395, 3429, 3463, 3498, 3533, 3569, 3605, 3641, 3678,
     3715, 3752, 3790, 3828, 3866, 3905, 3944, 3984, 4024, 4065, 4105, 4147, 4188, 4230, 4273,
     4316, 4359, 4403, 4447, 4492, 4537, 4583, 4629, 4675, 4722, 4770, 4818, 4866, 4915, 4965,
     5014, 5065, 5116, 5167, 5219, 5272, 5325, 5378, 5432, 5487, 5542, 5598, 5654, 5711, 5768,
     5826, 5885, 5944, 6003, 6064, 6125, 6186, 6248, 6311, 6375, 6439, 6503, 6569, 6635, 6702,
     6769, 6837, 6906, 6975, 7045, 7116, 7188, 7260, 7333, 7406, 7481, 7556, 7632, 7709, 7786,
     7864, 7943, 8023, 8104, 8185, 8268, 8351, 8435, 8519, 8605, 8692, 8779, 8867, 8956, 9046,
     9137, 9229, 9322, 9416, 9510, 9606, 9702, 9800, 9898, 9998, 10098, 10200, 10302, 10406,
     10510, 10616, 10723, 10831, 10939, 11049, 11160, 11273, 11386, 11500, 11616, 11733, 11851,
     11970, 12090, 12211, 12334, 12458, 12583, 12710, 12838, 12967, 13097, 13229, 13362, 13496,
     13631, 13768, 13907, 14047, 14188, 14330, 14474, 14620, 14767, 14915, 15065, 15217, 15369,
     15524, 15680, 15838, 15997, 16157, 16320, 16484, 16650, 16817, 16986, 17157, 17329, 17503,
     17679, 17857, 18036, 18218, 18401, 18586, 18772, 18961, 19152, 19344, 19539, 19735, 19933,
     20000 >>

Log2Up ==
  << 1, 1, 1, 1, 1, 1, 1, 1, 1, 1, 1, 1, 1, 1, 1, 1, 1, 1, 1, 1, 1, 1, 1, 1, 1, 1, 1, 1, 1, 1, 1,
     1, 1, 1, 1, 1, 1, 1, 1, 1, 1, 1, 1, 1, 1, 1, 1, 1, 1, 1, 1, 1, 1, 1, 1, 1, 1, 1, 1, 1, 1, 1,
     1, 1, 1, 1, 1, 1, 1, 1, 1, 1, 1, 1, 1, 1, 1, 1, 1, 1, 1, 1, 1, 1, 1, 1, 1, 1, 1, 1, 1, 1, 1,
     1, 1, 1, 1, 1, 1, 1, 2, 2, 2, 2, 2, 2, 2, 2, 2, 2, 2, 2, 2, 2, 2, 2, 2, 2, 2, 2, 2, 2, 2, 2,
     2, 2, 2, 2, 2, 2, 2, 2, 2, 2, 2, 2, 2, 2, 2, 2, 2, 2, 2, 2, 2, 2, 2, 2, 2, 2, 2, 2, 2, 2, 2,
     2, 2, 2, 3, 3, 3, 3, 3, 3, 3, 3, 3, 3, 3, 3, 3, 3, 3, 3, 3, 3, 3, 3, 3, 3, 3, 3, 3, 3, 3, 3,
     3, 3, 3, 3, 3, 3, 3, 3, 3, 3, 3, 3, 3, 3, 4, 4, 4, 4, 4, 4, 4, 4, 4, 4, 4, 4, 4, 4, 4, 4, 4,
     4, 4, 4, 4, 4, 4, 4, 4, 4, 4, 4, 4, 4, 4, 4, 5, 5, 5, 5, 5, 5, 5, 5, 5, 5, 5, 5, 5, 5, 5, 5,
     5, 5, 5, 5, 5, 5, 5, 5, 5, 5, 6, 6, 6, 6, 6, 6, 6, 6, 6, 6, 6, 6, 6, 6, 6, 6, 6, 6, 6, 6, 6,
     6, 7, 7, 7, 7, 7, 7, 7, 7, 7, 7, 7, 7, 7, 7, 7, 7, 7, 7, 7, 7, 8, 8, 8, 8, 8, 8, 8, 8, 8, 8,
     8, 8, 8, 8, 8, 8, 8, 9, 9, 9, 9, 9, 9, 9, 9, 9, 9, 9, 9, 9, 9, 9, 10, 10, 10, 10, 10, 10,
     10, 10, 10, 10, 10, 10, 10, 10, 11, 11, 11, 11, 11, 11, 11, 11, 11, 11, 11, 11, 12, 12, 12,
     12, 12, 12, 12, 12, 12, 12, 12, 12, 13, 13, 13, 13, 13, 13, 13, 13, 13, 13, 14, 14, 14, 14,
     14, 14, 14, 14, 14, 14, 15, 15, 15, 15, 15, 15, 15, 15, 15, 15, 16, 16, 16, 16, 16, 16, 16,
     16, 17, 17, 17, 17, 17, 17, 17, 17, 17, 18, 18, 18, 18, 18, 18, 18, 19, 19, 19, 19, 19, 19,
     19, 19, 20, 20, 20, 20, 20, 20, 20, 21, 21, 21, 21, 21, 21, 21, 22, 22, 22, 22, 22, 22, 23,
     23, 23, 23, 23, 23, 24, 24, 24, 24, 24, 24, 25, 25, 25, 25, 25, 25, 26, 26, 26, 26, 26, 27,
     27, 27, 27, 27, 28, 28, 28, 28, 28, 29, 29, 29, 29, 29, 30, 30, 30, 30, 30, 31, 31, 31, 31,
     31, 32, 32, 32, 32, 33, 33, 33, 33, 34, 34, 34, 34, 34, 35, 35, 35, 35, 36, 36, 36, 36, 37,
     37, 37, 38, 38, 38, 38, 39, 39, 39, 39, 40, 40, 40, 41, 41, 41, 41, 42, 42, 42, 43, 43, 43,
     43, 44, 44, 44, 45, 45, 45, 46, 46, 46, 47, 47, 47, 48, 48, 48, 49, 49, 49, 50, 50, 50, 51,
     51, 51, 52, 52, 53, 53, 53, 54, 54, 54, 55, 55, 56, 56, 56, 57, 57, 58, 58, 58, 59, 59, 60,
     60, 60, 61, 61, 62, 62, 63, 63, 63, 64, 64, 65, 65, 66, 66, 67, 67, 68, 68, 69, 69, 69, 70,
     70, 71, 71, 72, 72, 73, 73, 74, 75, 75, 76, 76, 77, 77, 78, 78, 79, 79, 80, 80, 81, 82, 82,
     83, 83, 84, 84, 85, 86, 86, 87, 87, 88, 89, 89, 90, 91, 91, 92, 92, 93, 94, 94, 95, 96, 96,
     97, 98, 98, 99, 100, 101, 101, 102, 103, 103, 104, 105, 106, 106, 107, 108, 109, 109, 110,
     111, 112, 112, 113, 114, 115, 116, 116, 117, 118, 119, 120, 120, 121, 122, 123, 124, 125,
     126, 127, 127, 128, 129, 130, 131, 132, 133, 134, 135, 136, 137, 138, 138, 139, 140, 141,
     142, 143, 144, 145, 146, 147, 148, 150, 151, 152, 153, 154, 155, 156, 157, 158, 159, 160,
     161, 163, 164, 165, 166, 167, 168, 169, 171, 172, 173, 174, 175, 177, 178, 179, 180, 182,
     183, 184, 185, 187, 188, 189, 191, 192, 193, 195, 196, 197, 199, 200, 202, 203, 204, 206,
     207, 209, 210, 212, 213, 215, 216, 218, 219, 221, 222, 224, 225, 227, 228, 230, 232, 233,
     235, 237, 238, 240, 241, 243, 245, 247, 248, 250, 252, 254, 255, 257, 259, 261, 262, 264,
     266, 268, 270, 272, 274, 276, 277, 279, 281, 283, 285, 287, 289, 291, 293, 295, 297, 300,
     302, 304, 306, 308, 310, 312, 314, 317, 319, 321, 323, 326, 328, 330, 332, 335, 337, 339,
     342, 344, 347, 349, 351, 354, 356, 359, 361, 364, 366, 369, 371, 374, 377, 379, 382, 385,
     387, 390, 393, 395, 398, 401, 404, 406, 409, 412, 415, 418, 421, 424, 427, 430, 433, 436,
     439, 442, 445, 448, 451, 454, 457, 461, 464, 467, 470, 474, 477, 480, 483, 487, 490, 494,
     497, 501, 504, 508, 511, 515, 518, 522, 525, 529, 533, 537, 540, 544, 548, 552, 555, 559,
     563, 567, 571, 575, 579, 583, 587, 591, 595, 600, 604, 608, 612, 616, 621, 625, 629, 634,
     638, 643, 647, 652, 656, 661, 665, 670, 675, 679, 684, 689, 694, 698, 703, 708, 713, 718,
     723, 728, 733, 738, 743, 749, 754, 759, 764, 770, 775, 780, 786, 791, 797, 802, 808, 813,
     819, 825, 831, 836, 842, 848, 854, 860, 866, 872, 878, 884, 890, 896, 903, 909, 915, 922,
     928, 935, 941, 948, 954, 961, 967, 974, 981, 988, 995, 1002, 1009, 1016, 1023, 1030, 1037,
     1044, 1051, 1059, 1066, 1074, 1081, 1089, 1096, 1104, 1111, 1119, 1127, 1135, 1143, 1151,
     1159, 1167, 1175, 1183, 1191, 1200, 1208, 1216, 1225, 1233, 1242, 1250, 1259, 1268, 1277,
     1286, 1295, 1304, 1313, 1322, 1331, 1340, 1350, 1359, 1368, 1378, 1388, 1397, 1407, 1417,
     1427, 1437, 1447, 1457, 1467, 1477, 1487, 1498, 1508, 1518, 1529, 1540, 1550, 1561, 1572,
     1583, 1594, 1605, 1616, 1627, 1639, 1650, 1662, 1673, 1685, 1697, 1708, 1720, 1732, 1744,
     1756, 1769, 1781, 1793, 1806, 1818, 1831, 1844, 1857, 1870, 1883, 1896, 1909, 1922, 1935,
     1949, 1963, 1976, 1990, 2004, 2018, 2032, 2046, 2060, 2074, 2089, 2103, 2118, 2133, 2148,
     2163, 2178, 2193, 2208, 2223, 2239, 2254, 2270, 2286, 2302, 2318, 2334, 2350, 2367, 2383,
     2400, 2416, 2433, 2450, 2467, 2484, 2501, 2519, 2536, 2554, 2572, 2590, 2608, 2626, 2644,
     2663, 2681, 2700, 2718, 2737, 2756, 2776, 2795, 2814, 2834, 2854, 2874, 2894, 2914, 2934,
     2954, 2975, 2996, 3016, 3037, 3059, 3080, 3101, 3123, 3145, 3166, 3188, 3211, 3233, 3255,
     3278, 3301, 3324, 3347, 3370, 3394, 3417, 3441, 3465, 3489, 3513, 3538, 3562, 3587, 3612,
     3637, 3663, 3688, 3714, 3740, 3766, 3792, 3818, 3845, 3871, 3898, 3926, 3953, 3980, 4008,
     4036, 4064, 4092, 4121, 4149, 4178, 4207, 4237, 4266, 4296, 4326, 4356, 4386, 4417, 4447,
     4478, 4509, 4541, 4572, 4604, 4636, 4668, 4701, 4734, 4766, 4800, 4833, 4867, 4900, 4935,
     4969, 5003, 5038, 5073, 5109, 5144, 5180, 5216, 5252, 5289, 5326, 5363, 5400, 5437, 5475,
     5513, 5552, 5590, 5629, 5668, 5708, 5748, 5788, 5828, 5868, 5909, 5950, 5992, 6033, 6075,
     6118, 6160, 6203, 6246, 6290, 6333, 6377, 6422, 6466, 6511, 6557, 6602, 6648, 6694, 6741,
     6788, 6835, 6883, 6931, 6979, 7027, 7076, 7125, 7175, 7225, 7275, 7326, 7377, 7428, 7480,
     7532, 7584, 7637, 7690, 7743, 7797, 7852, 7906, 7961, 8017, 8072, 8128, 8185, 8242, 8299,
     8357, 8415, 8474, 8533, 8592, 8652, 8712, 8773, 8834, 8895, 8957, 9019, 9082, 9145, 9209,
     9273, 9337, 9402, 9468, 9533, 9600, 9667, 9734, 9801, 9870, 9938, 10007, 10077, 10147,
     10218, 10289, 10360, 10432, 10505, 10578, 10652, 10726, 10800, 10875, 10951, 11027, 11104,
     11181, 11259, 11337, 11416, 11496, 11576, 11656, 11737, 11819, 11901, 11984, 12067, 12151,
     12236, 12321, 12406, 12493, 12580, 12667, 12755, 12844, 12933, 13023, 13114, 13205, 13297,
     13389, 13483, 13576, 13671, 13766, 13862, 13958, 14055, 14153, 14251, 14350, 14450, 14551,
     14652, 14754, 14857, 14960, 15064, 15169, 15274, 15380, 15487, 15595, 15704, 15813, 15923,
     16034, 16145, 16257, 16371, 16484, 16599, 16715, 16831, 16948, 17066, 17184, 17304, 17424,
     17546, 17668, 17790, 17914, 18039, 18164, 18291, 18418, 18546, 18675, 18805, 18936, 19067,
     19200, 19334, 19468, 19603, 19740, 19877, 20000 >>

\* The least index i in lo..hi with y <= tab[i] (tab is non-decreasing).
RECURSIVE LeastIdx(_, _, _, _)
LeastIdx(tab, y, lo, hi) ==
  IF lo >= hi THEN lo
  ELSE LET mid == (lo + hi) \div 2
       IN  IF y <= tab[mid] THEN LeastIdx(tab, y, lo, mid)
           ELSE LeastIdx(tab, y, mid + 1, hi)

FExp(x) ==
  IF x = NaN THEN NaN
  ELSE IF x > ExpHi THEN PosInf
  ELSE IF x < ExpLo THEN 0
  ELSE ExpTab[x - ExpLo + 1]

FLn(y) ==
  IF y = NaN \/ y < 0 THEN NaN
  ELSE IF y = 0 THEN NegInf
  ELSE IF y = PosInf THEN PosInf
  ELSE LnLo + LeastIdx(LnUp, y, 1, Len(LnUp)) - 1

FLog2(y) ==
  IF y = NaN \/ y < 0 THEN NaN
  ELSE IF y = 0 THEN NegInf
  ELSE IF y = PosInf THEN PosInf
  ELSE Log2Lo + LeastIdx(Log2Up, y, 1, Len(Log2Up)) - 1

\* np.nan_to_num(n, nan=0.0): not-a-number becomes 0, and (numpy's defaults)
\* the infinities become the largest finite values.
nan_to_num(x) ==
  IF x = NaN THEN 0
  ELSE IF x = PosInf THEN MaxFloat
  ELSE IF x = NegInf THEN -MaxFloat
  ELSE x

-----------------------------------------------------------------------------
(* Configuration (src/main.py lines 22-28), in units of 1/Scale *)

OMEGA == 100
TEMP_MIN == 1
TEMP_MAX == 300
SQUEEZING_MAX == 200
\* The literal 5.0 that ends the temperature axis in run_simulation.
T_VALS_STOP == 500
OUTPUT_FILENAME == "entanglement_phase_diagram.png"

-----------------------------------------------------------------------------
(* The three formulas *)

\* Mutant: the ratio inverted, exp(temp / omega).
bose_einstein_inverted(temp) ==
  LET n == FDiv(One, FSub(FExp(FDiv(temp, OMEGA)), One))
  IN  nan_to_num(n)

\* omega / temp is evaluated before numpy is involved: with a Python scalar
\* it is Python's float division, which raises ZeroDivisionError on 0; with
\* a numpy scalar or array it is numpy's, which gives an infinity (the
\* warning is silenced by np.errstate).
DivisionRaises(temp, kind) == kind = "python" /\ temp = 0

bose_einstein(temp) ==
  LET n == FDiv(One, FSub(FExp(FDiv(OMEGA, temp)), One))
  IN  nan_to_num(n)

\* Mutant: the "+ 1" under the logarithm dropped.
critical_squeezing_no_offset(n_bar) ==
  FMul(Half, FLn(FMul(FromInt(2), n_bar)))

\* Mutant: the factor 0.5 dropped.
critical_squeezing_unhalved(n_bar) ==
  FLn(FAdd(FMul(FromInt(2), n_bar), One))

critical_squeezing(n_bar) ==
  FMul(Half, FLn(FAdd(FMul(FromInt(2), n_bar), One)))

\* Mutant: the floor at 0 dropped.
log_negativity_unfloored(r, n_bar) ==
  LET nu_minus == FMul(FAdd(n_bar, Half), FExp(FMul(FromInt(-2), r)))
  IN  FNeg(FLog2(FMul(FromInt(2), nu_minus)))

log_negativity(r, n_bar) ==
  LET nu_minus == FMul(FAdd(n_bar, Half), FExp(FMul(FromInt(-2), r)))
      val == FNeg(FLog2(FMul(FromInt(2), nu_minus)))
  IN  FMax(0, val)

-----------------------------------------------------------------------------
(* numpy's array helpers; the formulas apply to arrays element by element *)

\* Mutant: endpoint=False, the interval divided by num and stop left out.
linspace_open(start, stop, num) ==
  LET step == FDiv(FSub(stop, start), FromInt(num))
  IN  [ i \in 1..num |-> FAdd(FMul(FromInt(i - 1), step), start) ]

\* Mutant: one sample short, the last one (stop) missing.
linspace_short(start, stop, num) ==
  LET step == FDiv(FSub(stop, start), FromInt(num - 1))
  IN  [ i \in 1..(num - 1) |-> FAdd(FMul(FromInt(i - 1), step), start) ]

\* np.linspace(start, stop, num), num >= 2: step = (stop - start) / (num - 1),
\* samples i * step + start, and the last sample set to stop itself.
linspace(start, stop, num) ==
  LET step == FDiv(FSub(stop, start), FromInt(num - 1))
  IN  [ i \in 1..num |->
          IF i = num THEN stop
          ELSE FAdd(FMul(FromInt(i - 1), step), start) ]

\* Mutant: 'ij' indexing, X[i][j] = x[i] and Y[i][j] = y[j].
meshgrid_ij(x, y) ==
  [ X |-> [ i \in 1..Len(x) |-> [ j \in 1..Len(y) |-> x[i] ] ],
    Y |-> [ i \in 1..Len(x) |-> [ j \in 1..Len(y) |-> y[j] ] ] ]

\* np.meshgrid(x, y) with the default 'xy' indexing: Len(y) rows of Len(x)
\* columns, X[i][j] = x[j] and Y[i][j] = y[i].
meshgrid(x, y) ==
  [ X |-> [ i \in 1..Len(y) |-> [ j \in 1..Len(x) |-> x[j] ] ],
    Y |-> [ i \in 1..Len(y) |-> [ j \in 1..Len(x) |-> y[i] ] ] ]

-----------------------------------------------------------------------------
(* run_simulation, one action per statement *)

\* Bound on the configured resolution.
MaxResolution == 4

\* The calls of lines 76-102 into the plotting library, in order.
PlotCalls ==
  << "figure", "from_list", "contourf", "colorbar", "set_label", "plot",
     "fill_between", "text", "text", "title", "xlabel", "ylabel", "ylim",
     "xlim", "grid", "legend" >>

Event(op, arg) == [ op |-> op, arg |-> arg ]

PlotsDone == Cardinality({ i \in DOMAIN events : events[i].op = "plt" })

FnIdle ==
  /\ temp_in = << >> /\ temp_kind = "numpy"
  /\ n_in = << >> /\ r_in = << >>
  /\ n_out = << >> /\ rc_out = << >> /\ en_out = << >>
  /\ exc = "none"

\* The state when run_simulation is entered.  The two configuration values
\* that shape the run are drawn here: the resolution from 2..MaxResolution
\* (the source sets 500) and SHOW_PLOT from both truth values (the source
\* sets True).
Init ==
  /\ FnIdle
  /\ pc = "print_start"
  /\ events = << >>
  /\ GRID_RESOLUTION \in 2..MaxResolution
  /\ SHOW_PLOT \in BOOLEAN
  /\ T_vals = << >> /\ r_vals = << >>
  /\ T_grid = << >> /\ r_grid = << >>
  /\ n_bar_grid = << >> /\ E_N = << >>
  /\ n_bar_line = << >> /\ r_crit_line = << >>
  /\ savefig_calls = 0
  /\ error = "none"

PrintStart ==
  /\ pc = "print_start"
  /\ events' = Append(events, Event("print", "Starting simulation"))
  /\ pc' = "T_vals"
  /\ UNCHANGED << GRID_RESOLUTION, SHOW_PLOT, T_vals, r_vals, T_grid, r_grid,
                  n_bar_grid, E_N, n_bar_line, r_crit_line, savefig_calls,
                  error, fnVars >>

LinspaceT ==
  /\ pc = "T_vals"
  /\ T_vals' = linspace(TEMP_MIN, T_VALS_STOP, GRID_RESOLUTION)
  /\ events' = Append(events, Event("compute", "T_vals"))
  /\ pc' = "r_vals"
  /\ UNCHANGED << GRID_RESOLUTION, SHOW_PLOT, r_vals, T_grid, r_grid,
                  n_bar_grid, E_N, n_bar_line, r_crit_line, savefig_calls,
                  error, fnVars >>

LinspaceR ==
  /\ pc = "r_vals"
  /\ r_vals' = linspace(0, SQUEEZING_MAX, GRID_RESOLUTION)
  /\ events' = Append(events, Event("compute", "r_vals"))
  /\ pc' = "meshgrid"
  /\ UNCHANGED << GRID_RESOLUTION, SHOW_PLOT, T_vals, T_grid, r_grid,
                  n_bar_grid, E_N, n_bar_line, r_crit_line, savefig_calls,
                  error, fnVars >>

Meshgrid ==
  /\ pc = "meshgrid"
  /\ T_grid' = meshgrid(T_vals, r_vals).X
  /\ r_grid' = meshgrid(T_vals, r_vals).Y
  /\ events' = Append(events, Event("compute", "meshgrid"))
  /\ pc' = "n_bar_grid"
  /\ UNCHANGED << GRID_RESOLUTION, SHOW_PLOT, T_vals, r_vals, n_bar_grid, E_N,
                  n_bar_line, r_crit_line, savefig_calls, error, fnVars >>

OccupationField ==
  /\ pc = "n_bar_grid"
  /\ n_bar_grid' = [ i \in 1..Len(T_grid) |->
                     [ j \in 1..Len(T_grid[i]) |-> bose_einstein(T_grid[i][j]) ] ]
  /\ events' = Append(events, Event("compute", "n_bar_grid"))
  /\ pc' = "E_N"
  /\ UNCHANGED << GRID_RESOLUTION, SHOW_PLOT, T_vals, r_vals, T_grid, r_grid,
                  E_N, n_bar_line, r_crit_line, savefig_calls, error, fnVars >>

EntanglementField ==
  /\ pc = "E_N"
  /\ E_N' = [ i \in 1..Len(r_grid) |->
              [ j \in 1..Len(r_grid[i]) |->
                  log_negativity(r_grid[i][j], n_bar_grid[i][j]) ] ]
  /\ events' = Append(events, Event("compute", "E_N"))
  /\ pc' = "n_bar_line"
  /\ UNCHANGED << GRID_RESOLUTION, SHOW_PLOT, T_vals, r_vals, T_grid, r_grid,
                  n_bar_grid, n_bar_line, r_crit_line, savefig_calls, error,
                  fnVars >>

OccupationLine ==
  /\ pc = "n_bar_line"
  /\ n_bar_line' = [ j \in 1..Len(T_vals) |-> bose_einstein(T_vals[j]) ]
  /\ events' = Append(events, Event("compute", "n_bar_line"))
  /\ pc' = "r_crit_line"
  /\ UNCHANGED << GRID_RESOLUTION, SHOW_PLOT, T_vals, r_vals, T_grid, r_grid,
                  n_bar_grid, E_N, r_crit_line, savefig_calls, error, fnVars >>

ThresholdLine ==
  /\ pc = "r_crit_line"
  /\ r_crit_line' = [ j \in 1..Len(n_bar_line) |-> critical_squeezing(n_bar_line[j]) ]
  /\ events' = Append(events, Event("compute", "r_crit_line"))
  /\ pc' = "plot"
  /\ UNCHANGED << GRID_RESOLUTION, SHOW_PLOT, T_vals, r_vals, T_grid, r_grid,
                  n_bar_grid, E_N, n_bar_line, savefig_calls, error, fnVars >>

\* Lines 76-102: the next call into the plotting library.
Plot ==
  /\ pc = "plot"
  /\ events' = Append(events, Event("plt", PlotCalls[PlotsDone + 1]))
  /\ pc' = IF PlotsDone + 1 = Len(PlotCalls) THEN "savefig" ELSE "plot"
  /\ UNCHANGED << GRID_RESOLUTION, SHOW_PLOT, T_vals, r_vals, T_grid, r_grid,
                  n_bar_grid, E_N, n_bar_line, r_crit_line, savefig_calls,
                  error, fnVars >>

\* plt.savefig(OUTPUT_FILENAME, dpi=300) returns: the image is written.
SaveFig ==
  /\ pc = "savefig"
  /\ savefig_calls' = savefig_calls + 1
  /\ events' = Append(events, Event("savefig", OUTPUT_FILENAME))
  /\ pc' = "print_complete"
  /\ UNCHANGED << GRID_RESOLUTION, SHOW_PLOT, T_vals, r_vals, T_grid, r_grid,
                  n_bar_grid, E_N, n_bar_line, r_crit_line, error, fnVars >>

\* Mutant: the failure of the write is caught and the run goes on.
SaveFigFailsSwallowed ==
  /\ pc = "savefig"
  /\ savefig_calls' = savefig_calls + 1
  /\ events' = Append(events, Event("savefig_raised", OUTPUT_FILENAME))
  /\ error' = "OSError"
  /\ pc' = "print_complete"
  /\ UNCHANGED << GRID_RESOLUTION, SHOW_PLOT, T_vals, r_vals, T_grid, r_grid,
                  n_bar_grid, E_N, n_bar_line, r_crit_line, fnVars >>

\* plt.savefig raises (an unwritable path): nothing in run_simulation
\* catches it, so it leaves run_simulation and reaches the caller.
SaveFigFails ==
  /\ pc = "savefig"
  /\ savefig_calls' = savefig_calls + 1
  /\ events' = Append(events, Event("savefig_raised", OUTPUT_FILENAME))
  /\ error' = "OSError"
  /\ pc' = "raised"
  /\ UNCHANGED << GRID_RESOLUTION, SHOW_PLOT, T_vals, r_vals, T_grid, r_grid,
                  n_bar_grid, E_N, n_bar_line, r_crit_line, fnVars >>

\* Mutant: the completion message printed before the image is written.
PrintCompleteBeforeSave ==
  /\ pc = "savefig"
  /\ \A i \in DOMAIN events : events[i].op # "print_complete"
  /\ events' = Append(events, Event("print_complete", OUTPUT_FILENAME))
  /\ UNCHANGED << pc, GRID_RESOLUTION, SHOW_PLOT, T_vals, r_vals, T_grid,
                  r_grid, n_bar_grid, E_N, n_bar_line, r_crit_line,
                  savefig_calls, error, fnVars >>

PrintComplete ==
  /\ pc = "print_complete"
  /\ events' = Append(events, Event("print_complete", OUTPUT_FILENAME))
  /\ pc' = "show"
  /\ UNCHANGED << GRID_RESOLUTION, SHOW_PLOT, T_vals, r_vals, T_grid, r_grid,
                  n_bar_grid, E_N, n_bar_line, r_crit_line, savefig_calls,
                  error, fnVars >>

\* if SHOW_PLOT: plt.show()
Show ==
  /\ pc = "show"
  /\ SHOW_PLOT
  /\ events' = Append(events, Event("show", ""))
  /\ pc' = "done"
  /\ UNCHANGED << GRID_RESOLUTION, SHOW_PLOT, T_vals, r_vals, T_grid, r_grid,
                  n_bar_grid, E_N, n_bar_line, r_crit_line, savefig_calls,
                  error, fnVars >>

SkipShow ==
  /\ pc = "show"
  /\ ~SHOW_PLOT
  /\ pc' = "done"
  /\ UNCHANGED << events, GRID_RESOLUTION, SHOW_PLOT, T_vals, r_vals, T_grid,
                  r_grid, n_bar_grid, E_N, n_bar_line, r_crit_line,
                  savefig_calls, error, fnVars >>

Next ==
  \/ PrintStart \/ LinspaceT \/ LinspaceR \/ Meshgrid
  \/ OccupationField \/ EntanglementField \/ OccupationLine \/ ThresholdLine
  \/ Plot \/ SaveFig \/ SaveFigFails \/ PrintComplete \/ Show \/ SkipShow

Spec == Init /\ [][Next]_vars

-----------------------------------------------------------------------------
(* Direct calls of the formulas.  The inputs are drawn in InitFn; each      *)
(* action is one call.  The occupations a formula can be applied to are     *)
(* those given directly followed by those bose_einstein returned.           *)

\* Bounds of the inputs.
TempStride == 13
MaxTempIdx == 40
NBarStride == 12
MaxNBarIdx == 40
MaxSqueeze == 140

\* Temperatures from 0 upwards, the configured minimum, and the largest finite
\* value (where exp(omega / temp) rounds to 1 and the quotient is infinite).
TempInputs ==
  { k * TempStride : k \in 0..MaxTempIdx } \cup { TEMP_MIN, MaxFloat }
NBarInputs == { k * NBarStride : k \in 0..MaxNBarIdx }
RInputs == 0..MaxSqueeze
Kinds == { "python", "numpy" }

Occupations == n_in \o n_out

SimIdle ==
  /\ pc = "idle"
  /\ events = << >>
  /\ GRID_RESOLUTION = 2
  /\ SHOW_PLOT = FALSE
  /\ T_vals = << >> /\ r_vals = << >>
  /\ T_grid = << >> /\ r_grid = << >>
  /\ n_bar_grid = << >> /\ E_N = << >>
  /\ n_bar_line = << >> /\ r_crit_line = << >>
  /\ savefig_calls = 0
  /\ error = "none"

InitFn ==
  /\ SimIdle
  /\ n_out = << >> /\ rc_out = << >> /\ en_out = << >>
  /\ exc = "none"
  /\ \/ \* two temperatures, for bose_einstein and critical_squeezing of it
        /\ temp_in \in { << t1, t2 >> : t1 \in TempInputs, t2 \in TempInputs }
        /\ temp_kind \in Kinds
        /\ n_in = << >> /\ r_in = << >>
     \/ \* two occupations, for critical_squeezing
        /\ n_in \in { << n1, n2 >> : n1 \in NBarInputs, n2 \in NBarInputs }
        /\ temp_in = << >> /\ temp_kind = "numpy" /\ r_in = << >>
     \/ \* a squeezing and an occupation, for log_negativity
        /\ n_in \in { << n >> : n \in NBarInputs }
        /\ r_in \in { << r >> : r \in RInputs }
        /\ temp_in = << >> /\ temp_kind = "numpy"
     \/ \* a squeezing and a temperature, for all three
        /\ temp_in \in { << t >> : t \in TempInputs }
        /\ temp_kind \in Kinds
        /\ r_in \in { << r >> : r \in RInputs }
        /\ n_in = << >>

CallBoseEinstein ==
  /\ exc = "none"
  /\ Len(n_out) < Len(temp_in)
  /\ LET temp == temp_in[Len(n_out) + 1]
     IN  IF DivisionRaises(temp, temp_kind)
         THEN /\ exc' = "ZeroDivisionError"
              /\ UNCHANGED n_out
         ELSE /\ n_out' = Append(n_out, bose_einstein(temp))
              /\ UNCHANGED exc
  /\ UNCHANGED << simVars, temp_in, temp_kind, n_in, r_in, rc_out, en_out >>

CallCriticalSqueezing ==
  /\ exc = "none"
  /\ Len(n_out) = Len(temp_in)
  /\ Len(rc_out) < Len(Occupations)
  /\ rc_out' = Append(rc_out, critical_squeezing(Occupations[Len(rc_out) + 1]))
  /\ UNCHANGED << simVars, temp_in, temp_kind, n_in, r_in, n_out, en_out, exc >>

CallLogNegativity ==
  /\ exc = "none"
  /\ Len(n_out) = Len(temp_in)
  /\ Len(r_in) = 1
  /\ Len(Occupations) >= 1
  /\ en_out = << >>
  /\ en_out' = << log_negativity(r_in[1], Occupations[1]) >>
  /\ UNCHANGED << simVars, temp_in, temp_kind, n_in, r_in, n_out, rc_out, exc >>

NextFn == CallBoseEinstein \/ CallCriticalSqueezing \/ CallLogNegativity

SpecFn == InitFn /\ [][NextFn]_vars

-----------------------------------------------------------------------------
(* Properties of run_simulation, checked under Spec *)

N == GRID_RESOLUTION

Computed(what) == \E i \in DOMAIN events : events[i] = Event("compute", what)
Happened(op) == \E i \in DOMAIN events : events[i].op = op
Before(e, i) == \E j \in 1..(i - 1) : events[j] = e

Fields == { "n_bar_grid", "E_N", "n_bar_line", "r_crit_line" }

IsNxN(a) == Len(a) = N /\ \A i \in 1..Len(a) : Len(a[i]) = N

AbsDiff(a, b) == IF a >= b THEN a - b ELSE b - a

\* The samples increase, and any two gaps between neighbours agree up to the
\* rounding of the step (fewer than one unit per sample).
Uniform(a) ==
  \A i, j \in 1..(Len(a) - 1) :
     /\ a[i] < a[i + 1]
     /\ AbsDiff(a[i + 1] - a[i], a[j + 1] - a[j]) < Len(a)

Within(a, lo, hi) == \A i \in 1..Len(a) : lo <= a[i] /\ a[i] <= hi

\* C3, as claimed: the temperature axis runs uniformly from TEMP_MIN to
\* TEMP_MAX and the squeezing axis from 0 to SQUEEZING_MAX, and no sample of
\* either axis lies outside its configured bounds.
C3_AxesWithinConfiguredBounds ==
  Computed("r_vals") =>
    /\ T_vals[1] = TEMP_MIN /\ T_vals[N] = TEMP_MAX
    /\ Uniform(T_vals) /\ Within(T_vals, TEMP_MIN, TEMP_MAX)
    /\ r_vals[1] = 0 /\ r_vals[N] = SQUEEZING_MAX
    /\ Uniform(r_vals) /\ Within(r_vals, 0, SQUEEZING_MAX)

\* C3, amended: the temperature axis runs uniformly from TEMP_MIN to the
\* fixed value 5.0 of line 61, not to TEMP_MAX, and no temperature sample
\* lies outside TEMP_MIN..5.0; the squeezing axis runs uniformly from 0 to
\* SQUEEZING_MAX and no squeezing sample lies outside 0..SQUEEZING_MAX.
C3_AxesRunToGridStop ==
  /\ Computed("T_vals") =>
       /\ T_vals[1] = TEMP_MIN /\ T_vals[N] = T_VALS_STOP
       /\ Uniform(T_vals) /\ Within(T_vals, TEMP_MIN, T_VALS_STOP)
  /\ Computed("r_vals") =>
       /\ r_vals[1] = 0 /\ r_vals[N] = SQUEEZING_MAX
       /\ Uniform(r_vals) /\ Within(r_vals, 0, SQUEEZING_MAX)

\* Both axes are built, with at least one interior sample, and a temperature
\* sample lies above TEMP_MAX.
C3_Witness ==
  /\ Computed("r_vals")
  /\ N >= 3
  /\ \E i \in 1..Len(T_vals) : T_vals[i] > TEMP_MAX

\* C5: the events of a run come in a fixed order: the start message before
\* anything else, the grid before every formula evaluation, the image write
\* (to OUTPUT_FILENAME) after all four fields, the completion message (naming
\* OUTPUT_FILENAME) only after the write has returned, and plt.show() only
\* after the completion message and only when SHOW_PLOT is true.
C5_EventOrder ==
  /\ events # << >> => events[1] = Event("print", "Starting simulation")
  /\ \A i \in DOMAIN events :
       LET e == events[i]
       IN  /\ (e.op = "compute" /\ e.arg \in Fields) =>
                Before(Event("compute", "meshgrid"), i)
           /\ e.op \in { "savefig", "savefig_raised" } =>
                /\ e.arg = OUTPUT_FILENAME
                /\ \A f \in Fields : Before(Event("compute", f), i)
           /\ e.op = "print_complete" =>
                /\ e.arg = OUTPUT_FILENAME
                /\ Before(Event("savefig", OUTPUT_FILENAME), i)
           /\ e.op = "show" =>
                /\ SHOW_PLOT
                /\ Before(Event("print_complete", OUTPUT_FILENAME), i)

\* A run that went through to plt.show().
C5_Witness ==
  /\ pc = "done"
  /\ events[Len(events)].op = "show"
  /\ Happened("print_complete") /\ Happened("savefig")

\* C6: when the image write fails, the error leaves run_simulation: the run
\* has ended (no statement is left to execute), the write was attempted
\* exactly once, and neither the completion message nor plt.show() happened.
C6_SaveFailureIsFatal ==
  error # "none" =>
    /\ pc = "raised"
    /\ ~ENABLED Next
    /\ savefig_calls = 1
    /\ ~Happened("savefig")
    /\ ~Happened("print_complete")
    /\ ~Happened("show")

\* The image write has failed in a run configured to show the plot.
C6_Witness ==
  /\ error = "OSError"
  /\ Happened("savefig_raised")
  /\ SHOW_PLOT

\* C7: for a resolution of N, both meshes, the occupation field and the
\* entanglement field are N x N, and the threshold curve has N elements, as
\* many as the temperature samples.
C7_Shapes ==
  /\ Computed("meshgrid") => IsNxN(T_grid) /\ IsNxN(r_grid)
  /\ Computed("n_bar_grid") => IsNxN(n_bar_grid)
  /\ Computed("E_N") => IsNxN(E_N)
  /\ Computed("r_crit_line") =>
       /\ Len(r_crit_line) = N
       /\ Len(r_crit_line) = Len(T_vals)

\* Every array is computed, for a resolution above the smallest.
C7_Witness ==
  /\ Computed("r_crit_line")
  /\ N >= 3
  /\ Len(E_N) = N

\* C10: the occupation field depends on temperature alone: grid points of one
\* column (one temperature sample) carry one occupation whatever their
\* squeezing, and the threshold curve at sample j is critical_squeezing of
\* the field's value in column j, the separately computed occupation line
\* agreeing with the field.
C10_OccupationByColumn ==
  /\ Computed("n_bar_grid") =>
       \A i, k \in 1..Len(n_bar_grid) : \A j \in 1..Len(n_bar_grid[i]) :
          /\ T_grid[i][j] = T_vals[j]
          /\ n_bar_grid[i][j] = n_bar_grid[k][j]
  /\ Computed("r_crit_line") =>
       \A i \in 1..Len(n_bar_grid) : \A j \in 1..Len(r_crit_line) :
          /\ n_bar_line[j] = n_bar_grid[i][j]
          /\ r_crit_line[j] = critical_squeezing(n_bar_grid[i][j])

\* The curve is computed over a field whose columns differ while the
\* squeezing differs down each column.
C10_Witness ==
  /\ Computed("r_crit_line")
  /\ \E j1, j2 \in 1..Len(n_bar_line) : n_bar_line[j1] # n_bar_line[j2]
  /\ r_grid[1][1] # r_grid[2][1]

-----------------------------------------------------------------------------
(* Properties of the three formulas, checked under SpecFn *)

\* Absolute tolerance of the threshold comparison (0.1), a few roundings of
\* the format; the program's format is finer and so is its tolerance.
Tolerance == Scale \div 10

\* One temperature above 0 went through bose_einstein, and its occupation
\* through critical_squeezing and, with a squeezing r, log_negativity.
ThresholdCase ==
  /\ Len(temp_in) = 1 /\ temp_in[1] > 0
  /\ n_in = << >>
  /\ Len(n_out) = 1 /\ Len(rc_out) = 1 /\ Len(en_out) = 1

C2_ZeroTemperatureGivesZero ==
  \A i \in DOMAIN temp_in :
     (temp_in[i] = 0 /\ Len(n_out) >= i - 1) =>
       /\ ~(exc # "none" /\ Len(n_out) = i - 1)
       /\ i <= Len(n_out) => n_out[i] = 0
       /\ (n_in = << >> /\ i <= Len(rc_out)) => rc_out[i] = 0

\* C8: for every occupation n_bar >= 0, critical_squeezing(n_bar) >= 0,
\* critical_squeezing(0) = 0 exactly, and n1 <= n2 implies
\* critical_squeezing(n1) <= critical_squeezing(n2).
C8_ThresholdMonotone ==
  \A i, k \in DOMAIN rc_out :
     Occupations[i] >= 0 =>
       /\ rc_out[i] # NaN /\ rc_out[i] >= 0
       /\ Occupations[i] = 0 => rc_out[i] = 0
       /\ Occupations[i] <= Occupations[k] => rc_out[i] <= rc_out[k]

\* critical_squeezing was applied to 0 and to a larger occupation, and the
\* thresholds differ.
C8_Witness ==
  /\ Len(n_in) = 2 /\ Len(rc_out) = 2
  /\ n_in[1] = 0 /\ n_in[2] > 0
  /\ rc_out[1] = 0 /\ rc_out[2] > 0

\* C9, as claimed: for every temperature T > 0, bose_einstein(T) is finite
\* and >= 0, and the occupation strictly decreases with temperature: for
\* 0 < T1 < T2, bose_einstein(T2) < bose_einstein(T1).
C9_OccupationDecreasing ==
  \A i, k \in DOMAIN n_out :
     temp_in[i] > 0 =>
       /\ IsFinite(n_out[i]) /\ n_out[i] >= 0
       /\ temp_in[i] < temp_in[k] => n_out[k] < n_out[i]

\* C9, amended: for every temperature T > 0, bose_einstein(T) is finite and
\* >= 0, and the occupation does not decrease with temperature: for
\* 0 < T1 < T2, bose_einstein(T1) <= bose_einstein(T2).
C9_OccupationNonDecreasing ==
  \A i, k \in DOMAIN n_out :
     temp_in[i] > 0 =>
       /\ IsFinite(n_out[i]) /\ n_out[i] >= 0
       /\ temp_in[i] < temp_in[k] => n_out[i] <= n_out[k]

\* bose_einstein was applied to two temperatures above 0, and the higher
\* temperature has the larger occupation.
C9_Witness ==
  /\ Len(temp_in) = 2 /\ Len(n_out) = 2
  /\ 0 < temp_in[1] /\ temp_in[1] < temp_in[2]
  /\ n_out[1] < n_out[2]

-----------------------------------------------------------------------------
(* The entanglement floor, checked under SpecAll: the runs of run_simulation *)
(* together with the direct calls.                                           *)

InitAll == Init \/ InitFn
NextAll == Next \/ NextFn
SpecAll == InitAll /\ [][NextAll]_vars

NonNegative(x) == x # NaN /\ x >= 0

\* C4: the entanglement is never negative: at every grid point, and for every
\* squeezing r and occupation n_bar >= 0, log_negativity returns a value
\* >= 0; log_negativity(0, 0) is exactly 0.
C4_EntanglementNonNegative ==
  /\ \A i \in 1..Len(E_N) : \A j \in 1..Len(E_N[i]) : NonNegative(E_N[i][j])
  /\ Len(en_out) = 1 =>
       /\ NonNegative(en_out[1])
       /\ (r_in[1] = 0 /\ Occupations[1] = 0) => en_out[1] = 0

\* log_negativity was called where the unfloored value is negative (no
\* squeezing, an occupation of at least 1) and returned 0.
C4_Witness ==
  /\ Len(n_in) = 1 /\ n_in[1] >= One
  /\ r_in = << 0 >>
  /\ en_out = << 0 >>

====
